---- MODULE Spec2Model ----
(***************************************************************************)
(* remctld: running commands (server/commands.c).                          *)
(*                                                                         *)
(* The model follows server_run_command from the parsed argument vector to *)
(* the last frame sent to the client: rule lookup, the built-in help and   *)
(* summary handling, the nul checks, the ACL check, the argv builders,     *)
(* server_exec (socket pairs, fork, descriptor handling, waitpid) and the  *)
(* libevent loop of server_process_output with its callbacks.  The child   *)
(* process, the kernel socket buffers and the failures of system calls are *)
(* the environment and are nondeterministic.                               *)
(*                                                                         *)
(* Strings are sequences of one-character strings; NUL is the nul octet.   *)
(* A C index i into argv is position i + 1 of the TLA+ sequence.           *)
(***************************************************************************)
EXTENDS Integers, Sequences, FiniteSets, TLC

(***************************************************************************)
(* Bounds of the model.                                                    *)
(***************************************************************************)
\* Bytes the children of one request write in total.
MaxChildBytes == 3
\* Bytes one read event of a bufferevent moves from the socket (libevent
\* reads at most a fixed amount per event, smaller than the watermarks).
MaxSingleRead == 1
\* Rules in a policy of the rule-matcher specification.
MaxRules == 3

\* Other children of the server that exit while the child of an invocation
\* runs.
MaxOtherChildren == 1

\* The largest payload of one output token of protocol one and of protocol
\* two, scaled down to a few bytes: the watermarks of the bufferevents (only
\* their order relative to the size of one read and to the child's output
\* matters).
TOKEN_MAX_OUTPUT_V1 == 2
TOKEN_MAX_OUTPUT == 2

(***************************************************************************)
(* Program constants.                                                      *)
(***************************************************************************)
INVALID_SOCKET == -1

(***************************************************************************)
(* Strings                                                                 *)
(***************************************************************************)
NUL == "NUL"
\* The null pointer, as a value no string equals.
NULL == <<"<null>">>

HELP == <<"h", "e", "l", "p">>
ALL == <<"A", "L", "L">>
EMPTY == <<"E", "M", "P", "T", "Y">>

\* memchr(s, '\0', len) != NULL
HasNul(s) == \E k \in 1..Len(s) : s[k] = NUL

\* xstrndup(s, len) read back as a C string: the bytes before the first nul.
xstrndup(s) ==
    IF HasNul(s)
    THEN SubSeq(s, 1, (CHOOSE k \in 1..Len(s) :
                          s[k] = NUL /\ \A m \in 1..(k - 1) : s[m] # NUL) - 1)
    ELSE s

\* strrchr(path, '/') and the step past it: the last path component.
basename(path) ==
    IF \E k \in 1..Len(path) : path[k] = "/"
    THEN SubSeq(path,
                (CHOOSE k \in 1..Len(path) :
                    path[k] = "/" /\ \A m \in (k + 1)..Len(path) : path[m] # "/") + 1,
                Len(path))
    ELSE path

\* argv[i] of the C code (NULL past the end of the vector).
Arg(av, i) == IF i + 1 \in 1..Len(av) THEN av[i + 1] ELSE NULL

(***************************************************************************)
(* Rule matcher                                                            *)
(***************************************************************************)
\* Mutant: the fields of a rule are compared as plain text, ALL included.
line_matches_literal(cline, command, subcommand) ==
    /\ \/ command # NULL /\ cline.command = command
       \/ command = NULL /\ cline.command = EMPTY
    /\ \/ subcommand # NULL /\ cline.subcommand = subcommand
       \/ subcommand = NULL /\ cline.subcommand = EMPTY

line_matches(cline, command, subcommand) ==
    LET okay == \/ cline.command = ALL
                \/ command # NULL /\ cline.command = command
                \/ command = NULL /\ cline.command = EMPTY
    IN  /\ okay
        /\ \/ cline.subcommand = ALL
           \/ subcommand # NULL /\ cline.subcommand = subcommand
           \/ subcommand = NULL /\ cline.subcommand = EMPTY

\* The for loop of find_config_line from index i (0-based) on; the result
\* is the 1-based position of the rule returned, 0 for NULL.
RECURSIVE find_from(_, _, _, _)
find_from(cfg, i, command, subcommand) ==
    IF ~(i < Len(cfg)) THEN 0
    ELSE IF line_matches(cfg[i + 1], command, subcommand) THEN i + 1
    ELSE find_from(cfg, i + 1, command, subcommand)

\* Mutant: the scan keeps going and returns the last matching rule.
RECURSIVE find_last_from(_, _, _, _)
find_last_from(cfg, i, command, subcommand) ==
    IF ~(i < Len(cfg)) THEN 0
    ELSE LET later == find_last_from(cfg, i + 1, command, subcommand)
         IN  IF later # 0 THEN later
             ELSE IF line_matches(cfg[i + 1], command, subcommand) THEN i + 1
             ELSE 0

find_config_line_last(cfg, command, subcommand) ==
    find_last_from(cfg, 0, command, subcommand)

find_config_line(cfg, command, subcommand) ==
    find_from(cfg, 0, command, subcommand)

(***************************************************************************)
(* Argv builders                                                           *)
(***************************************************************************)
\* Mutant: stdin_arg is used as it stands, -1 included.
stdin_index_raw(cline, av) == cline.stdin_arg

\* The index create_argv_command compares i with (size_t arithmetic: -1
\* becomes count - 1).
stdin_index(cline, av) ==
    IF cline.stdin_arg = -1 THEN Len(av) - 1 ELSE cline.stdin_arg

RECURSIVE argv_copy(_, _, _)
argv_copy(av, i, stdin_arg) ==
    IF ~(i < Len(av)) THEN <<>>
    ELSE IF i = stdin_arg THEN argv_copy(av, i + 1, stdin_arg)
    ELSE <<xstrndup(Arg(av, i))>> \o argv_copy(av, i + 1, stdin_arg)

\* create_argv_command: the child's argv and process->input.
create_argv_command(cline, av) ==
    LET s == stdin_index(cline, av)
    IN  [req_argv |-> <<basename(cline.program)>> \o argv_copy(av, 1, s),
         input |-> IF s >= 1 /\ s < Len(av) THEN Arg(av, s) ELSE NULL,
         stdin_idx |-> IF s >= 1 /\ s < Len(av) THEN s ELSE 0]

create_argv_help(path, command, subcommand) ==
    IF subcommand = NULL
    THEN <<basename(path), command>>
    ELSE <<basename(path), command, subcommand>>

(***************************************************************************)
(* State                                                                   *)
(***************************************************************************)
VARIABLES
    config,     \* the policy: a sequence of rules (struct config)
    argv,       \* the caller's argument vector (struct iovec **)
    protocol,   \* client->protocol
    pc,         \* where server_run_command is
    frames,     \* the frames sent to the client so far, in order
    d,          \* locals of server_run_command
    sum,        \* locals of server_send_summary
    process,    \* struct process of the current invocation
    ex,         \* locals of server_exec
    fdt,        \* the server's descriptor table
    loop,       \* the event base and the SIGCHLD event (consumed: the current
                \* non-blocking pass has read output of the child)
    bev,        \* the bufferevents process->inout and process->err
    child,      \* the forked child, as the kernel sees it
    sock,       \* bytes the child wrote that the server has not read yet
    hist,       \* history of the request (server_exec calls and results, forks,
                \* ACL answers, bytes written, ECONNRESET/EPIPE events, SIGCHLDs
                \* of other children) and what the environment may do in it
    query,      \* the rule matcher's input and result (matcher specification)
    client      \* struct client: what the child's environment is made from

vars == <<config, argv, protocol, pc, frames, d, sum, process, ex, fdt, loop,
          bev, child, sock, hist, query, client>>

(***************************************************************************)
(* Frames (server_send_error, server_v1_send_output, server_v2_send_output,*)
(* server_v2_send_status)                                                  *)
(***************************************************************************)
ErrorFrame(code) == [type |-> "ERROR", code |-> code]
OutputFrame(stream, data) == [type |-> "OUTPUT", stream |-> stream, data |-> data]
StatusFrame(status) == [type |-> "STATUS", status |-> status]
V1OutputFrame(data, status) == [type |-> "V1_OUTPUT", data |-> data, status |-> status]

(***************************************************************************)
(* Descriptors.  The table holds <<number, kind>> for every open           *)
(* descriptor; a new descriptor gets the lowest free number.               *)
(***************************************************************************)
FdNumbers(open) == {e[1] : e \in open}

LowestFree(open) ==
    CHOOSE n \in 0..(Cardinality(open) + 1) :
        n \notin FdNumbers(open) /\ \A m \in 0..(n - 1) : m \in FdNumbers(open)

\* open(2), socket(2), epoll_create(2): one new descriptor of the given kind.
fd_open(t, kind) == [t EXCEPT !.open = @ \cup {<<LowestFree(t.open), kind>>}]

\* The number the next descriptor gets.
fd_next(t) == LowestFree(t.open)

\* close(2): releases the number, or fails with EBADF when it is not open.
fd_close(t, n) ==
    IF n \in FdNumbers(t.open)
    THEN [t EXCEPT !.open = {e \in @ : e[1] # n}]
    ELSE [t EXCEPT !.ebadf = @ + 1]

\* if (fd != INVALID_SOCKET) close(fd);
fd_close_valid(t, n) == IF n # INVALID_SOCKET THEN fd_close(t, n) ELSE t

InitialFds == [open |-> {<<0, "stdin">>, <<1, "stdout">>, <<2, "stderr">>,
                         <<3, "client">>},
               ebadf |-> 0]

(***************************************************************************)
(* Wait status macros                                                      *)
(***************************************************************************)
WIFEXITED(status) == status % 128 = 0
WEXITSTATUS(status) == (status \div 256) % 256

(***************************************************************************)
(* server_run_command, up to the launch                                    *)
(***************************************************************************)
\* command and subcommand as nul-terminated strings (lines 806-809).
cmd_command(av) == xstrndup(Arg(av, 0))
cmd_subcommand(av) == IF Arg(av, 1) # NULL THEN xstrndup(Arg(av, 1)) ELSE NULL

\* "Neither the command nor the subcommand may ever contain nuls."
head_has_nul(av) == \E i \in 0..1 : Arg(av, i) # NULL /\ HasNul(Arg(av, i))

\* The answer of the ACL evaluator for the session's user.
server_config_acl_permit(cline) == cline.permit

\* Mutant: the dispatcher goes on without looking at the ACL answer.
acl_denied_ignored(cline) == FALSE

\* if (!server_config_acl_permit(cline, user)) in server_run_command.
acl_denied(cline) == ~server_config_acl_permit(cline)

\* Mutant: the second nul check exempts no argument.
nul_exempt_none(cfg, av, cl, help, i) == FALSE

\* The arguments the second nul check skips (lines 846-851); cl is the rule
\* found (0 for NULL), help the help flag, i the C index of the argument.
nul_exempt(cfg, av, cl, help, i) ==
    /\ cl # 0
    /\ \/ help = FALSE /\ i = cfg[cl].stdin_arg
       \/ Arg(av, i + 1) = NULL /\ cfg[cl].stdin_arg = -1

tail_has_nul(cfg, av, cl, help) ==
    \E i \in 1..(Len(av) - 1) :
        /\ ~nul_exempt(cfg, av, cl, help, i)
        /\ HasNul(Arg(av, i))
        \* the loop stops at the first argument it rejects
        /\ \A k \in 1..(i - 1) : nul_exempt(cfg, av, cl, help, k) \/ ~HasNul(Arg(av, k))

\* argv[1] != NULL && argv[2] != NULL && argv[3] != NULL
too_many_args(av) == Arg(av, 1) # NULL /\ Arg(av, 2) # NULL /\ Arg(av, 3) # NULL

NoLocals ==
    [command |-> NULL, subcommand |-> NULL, helpsubcommand |-> NULL, cline |-> 0,
     help |-> FALSE, req_argv |-> <<>>, stdin_idx |-> 0, builder |-> "none",
     lookups |-> <<>>]

EmptyProcess ==
    [input |-> NULL, pid |-> 0, status |-> 0, reaped |-> FALSE,
     saw_output |-> FALSE, output |-> NULL, stdinout_fd |-> 0, stderr_fd |-> 0]

NoExec ==
    [command |-> NULL, req_argv |-> <<>>, cline |-> 0,
     stdinout_fds |-> <<INVALID_SOCKET, INVALID_SOCKET>>,
     stderr_fds |-> <<INVALID_SOCKET, INVALID_SOCKET>>, ok |-> FALSE]

NoSummary ==
    [active |-> FALSE, i |-> 0, ok_any |-> FALSE, status_all |-> 0, output |-> NULL]

\* Mutant: every "help" command takes the built-in help path, whether or
\* not a rule matched it.
help_fallback_any_help(first, command) == command = HELP

\* cline == NULL && strcmp(command, "help") == 0 (line 819).
help_fallback(first, command) == first = 0 /\ command = HELP

\* What server_run_command does before it launches anything: the frames it
\* sends, its locals, and how it goes on ("done", "summary" or "launch").
run_command(cfg, av) ==
    LET command == cmd_command(av)
        subcommand == cmd_subcommand(av)
        first == find_config_line(cfg, command, subcommand)
        fallback == help_fallback(first, command)
        pre == IF fallback /\ too_many_args(av)
               THEN <<ErrorFrame("TOOMANY_ARGS")>> ELSE <<>>
        help == fallback /\ subcommand # NULL
        helpsub == IF help /\ Arg(av, 2) # NULL THEN xstrndup(Arg(av, 2)) ELSE NULL
        cl == IF help THEN find_config_line(cfg, subcommand, helpsub) ELSE first
        looked == <<<<command, subcommand>>>>
                  \o (IF help THEN <<<<subcommand, helpsub>>>> ELSE <<>>)
        locals == [NoLocals EXCEPT !.command = command, !.subcommand = subcommand,
                                   !.helpsubcommand = helpsub, !.cline = cl,
                                   !.help = help, !.lookups = looked]
        built == create_argv_command(cfg[cl], av)
        \* the call of server_config_acl_permit and its answer
        asked == {<<cl, server_config_acl_permit(cfg[cl])>>}
        fail(pref, code, loc, answers) ==
            [next |-> "done", frames |-> pref \o <<ErrorFrame(code)>>,
             locals |-> loc, input |-> NULL, acl |-> answers]
    IN  IF Arg(av, 0) = NULL THEN fail(<<>>, "BAD_COMMAND", NoLocals, {})
        ELSE IF head_has_nul(av) THEN fail(<<>>, "BAD_COMMAND", NoLocals, {})
        ELSE IF fallback /\ subcommand = NULL
        THEN [next |-> "summary", frames |-> pre,
              locals |-> [NoLocals EXCEPT !.command = command,
                                          !.lookups = <<<<command, subcommand>>>>],
              input |-> NULL, acl |-> {}]
        ELSE IF tail_has_nul(cfg, av, cl, help)
        THEN fail(pre, "BAD_COMMAND", locals, {})
        ELSE IF cl = 0 THEN fail(pre, "UNKNOWN_COMMAND", locals, {})
        ELSE IF acl_denied(cfg[cl]) THEN fail(pre, "ACCESS", locals, asked)
        ELSE IF help /\ cfg[cl].help = NULL
        THEN fail(pre, "NO_HELP", locals, asked)
        ELSE IF help
        THEN [next |-> "launch", frames |-> pre,
              locals |-> [locals EXCEPT
                  !.subcommand = cfg[cl].help,
                  !.req_argv = create_argv_help(cfg[cl].program, cfg[cl].help, helpsub),
                  !.builder = "help"],
              input |-> NULL, acl |-> asked]
        ELSE [next |-> "launch", frames |-> pre,
              locals |-> [locals EXCEPT !.req_argv = built.req_argv,
                                        !.stdin_idx = built.stdin_idx,
                                        !.builder = "command"],
              input |-> built.input, acl |-> asked]

\* server_run_command from its entry to the call of server_exec or of
\* server_send_summary, or to its return when a check fails.
RunCommand ==
    /\ pc = "start"
    /\ LET r == run_command(config, argv)
       IN  /\ frames' = frames \o r.frames
           /\ d' = r.locals
           /\ hist' = [hist EXCEPT !.acl = @ \cup r.acl]
           /\ process' = [EmptyProcess EXCEPT !.input = r.input]
           /\ CASE r.next = "done" ->
                    /\ pc' = "done"
                    /\ UNCHANGED <<sum, ex>>
                [] r.next = "summary" ->
                    /\ pc' = "sweep"
                    /\ sum' = [NoSummary EXCEPT
                                  !.active = TRUE,
                                  !.output = IF protocol = 1 THEN <<>> ELSE NULL]
                    /\ UNCHANGED ex
                [] r.next = "launch" ->
                    /\ pc' = "exec"
                    /\ ex' = [NoExec EXCEPT !.command = r.locals.command,
                                            !.req_argv = r.locals.req_argv,
                                            !.cline = r.locals.cline]
                    /\ UNCHANGED sum
    /\ UNCHANGED <<config, argv, protocol, fdt, loop, bev, child, sock, query, client>>

(***************************************************************************)
(* server_send_summary                                                     *)
(***************************************************************************)
\* Mutant: the sweep runs the summary of a rule without asking the ACL.
summary_qualifies_no_acl(cline) ==
    cline.subcommand = ALL /\ cline.summary # NULL

\* The three tests of the for loop (lines 604-609).
summary_qualifies(cline) ==
    /\ cline.subcommand = ALL
    /\ server_config_acl_permit(cline)
    /\ cline.summary # NULL

\* One iteration of the for loop up to the call of server_exec, or, after
\* the last rule, the frame that ends the sweep.
SummaryIter ==
    /\ pc = "sweep"
    /\ IF sum.i < Len(config)
       THEN LET cline == config[sum.i + 1]
                asked == IF cline.subcommand = ALL
                         THEN {<<sum.i + 1, server_config_acl_permit(cline)>>} ELSE {}
            IN  /\ process' = EmptyProcess
                /\ hist' = [hist EXCEPT !.acl = @ \cup asked]
                /\ frames' = frames
                /\ IF summary_qualifies(cline)
                   THEN /\ sum' = [sum EXCEPT !.ok_any = TRUE]
                        /\ ex' = [NoExec EXCEPT
                                     !.command = cline.summary,
                                     !.req_argv = <<basename(cline.program), cline.summary>>,
                                     !.cline = sum.i + 1]
                        /\ pc' = "exec"
                   ELSE /\ sum' = [sum EXCEPT !.i = @ + 1]
                        /\ pc' = "sweep"
                        /\ UNCHANGED ex
       ELSE /\ frames' = frames \o
                  <<IF sum.ok_any
                    THEN IF protocol = 1
                         THEN V1OutputFrame(sum.output, sum.status_all)
                         ELSE StatusFrame(sum.status_all)
                    ELSE ErrorFrame("UNKNOWN_COMMAND")>>
            /\ pc' = "done"
            /\ UNCHANGED <<process, hist, sum, ex>>
    /\ UNCHANGED <<config, argv, protocol, d, fdt, loop, bev, child, sock, query, client>>

(***************************************************************************)
(* server_exec: socket pairs and fork                                      *)
(***************************************************************************)
NoBev ==
    [exists |-> FALSE, enR |-> FALSE, enW |-> FALSE, input |-> <<>>,
     output |-> <<>>, readcb |-> "none", writecb |-> "none", low |-> 0, high |-> 0]

NoLoop ==
    [exists |-> FALSE, fd |-> INVALID_SOCKET, gotterm |-> FALSE, gotbreak |-> FALSE,
     sigchld |-> FALSE, seen |-> {}, consumed |-> FALSE]

NoChild ==
    [state |-> "none", pid |-> 0, raw |-> 0, out |-> <<>>, errb |-> <<>>,
     has_stdin |-> FALSE, stdin |-> <<>>, stdin_eof |-> FALSE, calls |-> <<>>,
     died |-> FALSE, shutdowns |-> 0, stdin_write |-> "none"]

NoSock == [inout |-> <<>>, err |-> <<>>]

\* socketpair(AF_UNIX, SOCK_STREAM, 0, fds): the table and the two numbers.
socketpair(t, kind0, kind1) ==
    LET a == fd_next(t)
        t1 == fd_open(t, kind0)
        b == fd_next(t1)
    IN  [t |-> fd_open(t1, kind1), fds |-> <<a, b>>]

\* Mutant: the done label forgets the second end of the stdin/stdout pair.
exec_done_leaky(t, stdinout_fds, stderr_fds) ==
    fd_close_valid(fd_close_valid(fd_close_valid(t,
        stdinout_fds[1]), stderr_fds[1]), stderr_fds[2])

\* The done label of server_exec (lines 551-559).
exec_done(t, stdinout_fds, stderr_fds) ==
    fd_close_valid(fd_close_valid(fd_close_valid(fd_close_valid(t,
        stdinout_fds[1]), stdinout_fds[2]), stderr_fds[1]), stderr_fds[2])

\* The bufferevents as server_process_output sets them up (lines 230-258).
setup_inout(proto, input) ==
    [NoBev EXCEPT
        !.exists = TRUE, !.enR = TRUE, !.enW = input # NULL,
        !.output = IF input # NULL THEN input ELSE <<>>,
        !.readcb = IF proto = 1 THEN "handle_output_full" ELSE "handle_output",
        !.writecb = IF input # NULL THEN "handle_input_end" ELSE "none",
        !.low = IF proto = 1 THEN TOKEN_MAX_OUTPUT_V1 ELSE 0,
        !.high = IF proto = 1 THEN TOKEN_MAX_OUTPUT_V1 ELSE TOKEN_MAX_OUTPUT]

setup_err(proto) ==
    IF proto = 1 THEN NoBev
    ELSE [NoBev EXCEPT !.exists = TRUE, !.enR = TRUE, !.readcb = "handle_output",
                       !.low = 0, !.high = TOKEN_MAX_OUTPUT]

\* server_exec from its entry to the event loop (fork succeeded) or to its
\* return (a socketpair or the fork failed).
ExecStart ==
    /\ pc = "exec"
    /\ \E outcome \in {"socketpair1", "socketpair2", "fork", "ok"} :
        LET p1 == socketpair(fdt, "stdinout0", "stdinout1")
            p2 == IF protocol > 1 THEN socketpair(p1.t, "stderr0", "stderr1")
                  ELSE [t |-> p1.t, fds |-> <<INVALID_SOCKET, INVALID_SOCKET>>]
            internal == <<ErrorFrame("INTERNAL")>>
            \* the parent after fork: close the child's ends
            t3 == fd_close(p2.t, p1.fds[2])
            t4 == IF protocol > 1 THEN fd_close(t3, p2.fds[2]) ELSE t3
            newpid == 100 + Len(hist.forks) + 1
        IN  CASE outcome = "socketpair1" ->
                    /\ frames' = frames \o internal
                    /\ hist' = [hist EXCEPT !.socketpairs = @ + 1,
                                            !.execs = Append(@, ex.cline)]
                    /\ ex' = [ex EXCEPT !.ok = FALSE]
                    /\ fdt' = exec_done(fdt, ex.stdinout_fds, ex.stderr_fds)
                    /\ pc' = "return"
                    /\ UNCHANGED <<process, loop, bev, child, sock>>
              [] outcome = "socketpair2" ->
                    /\ protocol > 1
                    /\ frames' = frames \o internal
                    /\ hist' = [hist EXCEPT !.socketpairs = @ + 2,
                                            !.created = p1.fds,
                                            !.execs = Append(@, ex.cline)]
                    /\ ex' = [ex EXCEPT !.ok = FALSE, !.stdinout_fds = p1.fds]
                    /\ fdt' = exec_done(p1.t, p1.fds, ex.stderr_fds)
                    /\ pc' = "return"
                    /\ UNCHANGED <<process, loop, bev, child, sock>>
              [] outcome = "fork" ->
                    /\ frames' = frames \o internal
                    /\ hist' = [hist EXCEPT
                                   !.socketpairs = @ + (IF protocol > 1 THEN 2 ELSE 1),
                                   !.created = p1.fds \o
                                       (IF protocol > 1 THEN p2.fds ELSE <<>>),
                                   !.forkfail = @ + 1,
                                   !.execs = Append(@, ex.cline)]
                    /\ ex' = [ex EXCEPT !.ok = FALSE, !.stdinout_fds = p1.fds,
                                        !.stderr_fds = p2.fds]
                    /\ process' = [process EXCEPT !.pid = -1]
                    /\ fdt' = exec_done(p2.t, p1.fds, p2.fds)
                    /\ pc' = "return"
                    /\ UNCHANGED <<loop, bev, child, sock>>
              [] outcome = "ok" ->
                    /\ frames' = frames
                    /\ hist' = [hist EXCEPT
                                   !.socketpairs = @ + (IF protocol > 1 THEN 2 ELSE 1),
                                   !.created = p1.fds \o
                                       (IF protocol > 1 THEN p2.fds ELSE <<>>),
                                   !.forks = Append(@,
                                       [rule |-> ex.cline,
                                        program |-> config[ex.cline].program,
                                        argv |-> ex.req_argv,
                                        input |-> process.input,
                                        command |-> ex.command,
                                        pid |-> newpid]),
                                   !.execs = Append(@, ex.cline)]
                    /\ ex' = [ex EXCEPT
                                 !.stdinout_fds = <<p1.fds[1], INVALID_SOCKET>>,
                                 !.stderr_fds = IF protocol > 1
                                                THEN <<p2.fds[1], INVALID_SOCKET>>
                                                ELSE p2.fds]
                    /\ process' = [process EXCEPT
                                      !.pid = newpid,
                                      !.stdinout_fd = p1.fds[1],
                                      !.stderr_fd = IF protocol > 1 THEN p2.fds[1] ELSE @]
                    \* server_process_output: event base, bufferevents, SIGCHLD
                    /\ loop' = [NoLoop EXCEPT !.exists = TRUE, !.fd = fd_next(t4),
                                              !.sigchld = TRUE]
                    /\ fdt' = fd_open(t4, "event_base")
                    /\ bev' = [inout |-> setup_inout(protocol, process.input),
                               err |-> setup_err(protocol)]
                    /\ child' = [NoChild EXCEPT !.state = "forked", !.pid = newpid,
                                                !.has_stdin = process.input # NULL]
                    /\ sock' = NoSock
                    /\ pc' = "loop"
    /\ UNCHANGED <<config, argv, protocol, d, sum, query, client>>

(***************************************************************************)
(* The child and the kernel                                                *)
(***************************************************************************)
\* The k-th byte the children of the request write.
Byte(k) == ToString(k)

\* Raw wait statuses: exit(0), exit(1), killed by SIGKILL, and exit(255),
\* which is followed only for the requests whose children write nothing.
RawStatuses == {0, 256, 9}

ExitStatuses(budget) == IF budget = 0 THEN RawStatuses \cup {65280} ELSE RawStatuses

\* child_die_handler: the status sysdie exits with in the child.
child_die_handler == -1

\* exit(code) as waitpid reports it: the low eight bits of the code in bits
\* 8 to 15 of the raw status.
exit_raw(code) == (code % 256) * 256

\* Mutant: the child changes its uid before its groups and its gid.
child_calls_uid_first(cline, hostname) ==
    <<"setenv REMUSER", "setenv REMOTE_USER", "setenv REMOTE_ADDR">>
    \o (IF hostname # NULL THEN <<"setenv REMOTE_HOST">> ELSE <<>>)
    \o <<"setenv REMCTL_COMMAND">>
    \o (IF cline.user # NULL /\ cline.uid > 0
        THEN <<"setuid", "initgroups", "setgid">> ELSE <<>>)
    \o <<"execv">>

\* The calls that can fail between fork and the program, in the order the
\* child makes them (lines 483-510).
child_calls(cline, hostname) ==
    <<"setenv REMUSER", "setenv REMOTE_USER", "setenv REMOTE_ADDR">>
    \o (IF hostname # NULL THEN <<"setenv REMOTE_HOST">> ELSE <<>>)
    \o <<"setenv REMCTL_COMMAND">>
    \o (IF cline.user # NULL /\ cline.uid > 0
        THEN <<"initgroups", "setgid", "setuid">> ELSE <<>>)
    \o <<"execv">>

\* The calls that fail in the requests explored: any of them when the
\* start of the child is followed call by call, none otherwise.
FailingCalls(calls) == IF hist.faults THEN 0..Len(calls) ELSE {0}

\* The child from fork to the program: it makes its calls in order; the
\* first one that fails ends it through sysdie and child_die_handler, and
\* when none fails execv has replaced it by the program.
ChildBranch ==
    /\ pc \in {"loop", "wait"}
    /\ child.state = "forked"
    /\ LET calls == child_calls(config[ex.cline], client.hostname)
       IN  \E failed \in FailingCalls(calls) :
             child' = IF failed = 0
                      THEN [child EXCEPT !.state = "running", !.calls = calls]
                      ELSE [child EXCEPT !.state = "zombie",
                                         !.calls = SubSeq(calls, 1, failed),
                                         !.died = TRUE,
                                         !.raw = exit_raw(child_die_handler)]
    /\ UNCHANGED <<config, argv, protocol, pc, frames, d, sum, process, ex, fdt,
                   loop, bev, sock, hist, query, client>>

\* The child writes one byte to its standard output (stream "inout") or to
\* its standard error; under protocol 1 both are the same socket.
ChildWrite ==
    /\ pc = "loop"
    /\ child.state = "running"
    /\ hist.nbytes < hist.budget
    /\ \E b \in (IF protocol = 1 THEN {"inout"} ELSE {"inout", "err"}) :
        /\ sock' = [sock EXCEPT ![b] = Append(@, Byte(hist.nbytes + 1))]
        /\ child' = IF b = "inout"
                    THEN [child EXCEPT !.out = Append(@, Byte(hist.nbytes + 1))]
                    ELSE [child EXCEPT !.errb = Append(@, Byte(hist.nbytes + 1))]
    /\ hist' = [hist EXCEPT !.nbytes = @ + 1]
    /\ UNCHANGED <<config, argv, protocol, pc, frames, d, sum, process, ex, fdt,
                   loop, bev, query, client>>

\* The child exits or is killed; its ends of the sockets are closed.
ChildExit ==
    /\ pc \in {"loop", "wait"}
    /\ child.state = "running"
    /\ \E raw \in ExitStatuses(hist.budget) :
          child' = [child EXCEPT !.state = "zombie", !.raw = raw]
    /\ UNCHANGED <<config, argv, protocol, pc, frames, d, sum, process, ex, fdt,
                   loop, bev, sock, hist, query, client>>

(***************************************************************************)
(* server_process_output: the event loop and its callbacks                 *)
(***************************************************************************)
Min2(a, b) == IF a < b THEN a ELSE b

\* The child still holds its ends of the sockets (it has not exited).
child_alive == child.state \in {"forked", "running"}

\* The read event of bufferevent b is active: reading is enabled, the input
\* buffer is below its high watermark, and the socket has data or is at EOF.
read_ready(b) ==
    /\ bev[b].exists
    /\ bev[b].enR
    /\ Len(bev[b].input) < bev[b].high
    /\ (sock[b] # <<>> \/ ~child_alive)

\* The write event of process->inout is active (the socket is writable).
write_ready == bev.inout.exists /\ bev.inout.enW

\* The callbacks a pass of the loop may still run: all of them while
\* event_base_dispatch runs, each source once in a non-blocking pass.
may_run(src) ==
    \/ pc = "loop" /\ ~loop.gotterm /\ ~loop.gotbreak
    \/ pc = "drain" /\ ~loop.gotbreak /\ src \notin loop.seen

ran(src) == IF pc = "drain" THEN [loop EXCEPT !.seen = @ \cup {src}] ELSE loop

\* Mutant: ECONNRESET and EPIPE are treated like any other error.
handle_io_event_strict(bv, events) ==
    IF events = "eof"
    THEN [bev |-> [bv EXCEPT !.enR = FALSE], failed |-> FALSE]
    ELSE [bev |-> bv, failed |-> TRUE]

\* handle_io_event: what the callback does to its bufferevent, and whether
\* it sends ERROR_INTERNAL and breaks the loop.  events is "eof"
\* (BEV_EVENT_EOF), "reset" (BEV_EVENT_ERROR with ECONNRESET or EPIPE) or
\* "error" (BEV_EVENT_ERROR with any other errno).
handle_io_event(bv, events) ==
    CASE events = "eof" -> [bev |-> [bv EXCEPT !.enR = FALSE], failed |-> FALSE]
      [] events = "reset" ->
            [bev |-> [bv EXCEPT !.enR = FALSE, !.enW = FALSE], failed |-> FALSE]
      [] OTHER -> [bev |-> bv, failed |-> TRUE]

\* Mutant: handle_output tags every chunk as stream 1.
output_stream_always_stdout(b) == 1

\* stream = (bev == process->inout) ? 1 : 2;
output_stream(b) == IF b = "inout" THEN 1 ELSE 2

\* Mutant: handle_output_full installs the discard callback alone.
writecb_after_swap_none(input) == "none"

\* writecb = (process->input == NULL) ? NULL : handle_input_end;
writecb_after_swap(input) == IF input = NULL THEN "none" ELSE "handle_input_end"

\* Mutant: the full-buffer callback keeps only the first byte.
v1_take_one(input) == SubSeq(input, 1, 1)

\* bufferevent_read_buffer(bev, process->output): all of the input buffer.
v1_take(input) == input

\* The read event of bufferevent b: one read from the socket, then the read
\* callback (handle_output, handle_output_full, handle_output_discard) when
\* the low watermark is reached, or handle_io_event on EOF or error.
\* outcome is what the system calls do: "ok", "error" (read fails with an
\* errno other than ECONNRESET/EPIPE), "reset" (read fails with ECONNRESET),
\* "sendfail" (server_v2_send_output returns false).
ReadEvent(b, outcome) ==
    /\ may_run(b)
    /\ read_ready(b)
    /\ LET n == Min2(Min2(Len(sock[b]), bev[b].high - Len(bev[b].input)),
                     MaxSingleRead)
           data == bev[b].input \o SubSeq(sock[b], 1, n)
           called == Len(data) >= bev[b].low
           l2 == ran(b)
           \* the same, when the event moved bytes of the child into the
           \* input buffer during a non-blocking pass
           l3 == [l2 EXCEPT !.consumed = @ \/ pc = "drain"]
           \* handle_output_full runs and installs handle_output_discard
           full == /\ outcome = "ok" /\ sock[b] # <<>> /\ called
                   /\ bev[b].readcb = "handle_output_full"
           \* the event libevent reports when the read returns no data
           events == IF outcome = "ok" THEN "eof" ELSE outcome
           \* libevent disables reading, then calls handle_io_event
           h == handle_io_event([bev[b] EXCEPT !.enR = FALSE], events)
       IN  /\ hist' = [hist EXCEPT !.swaps = @ + (IF full THEN 1 ELSE 0),
                                   !.resets = @ + (IF outcome = "reset" THEN 1 ELSE 0)]
           /\ CASE outcome \in {"error", "reset"} \/ sock[b] = <<>> ->
                  /\ outcome # "sendfail"
                  \* ECONNRESET: the child has gone without reading its input
                  /\ outcome = "reset" =>
                         /\ b = "inout" /\ child.has_stdin
                         /\ sock[b] = <<>> /\ ~child_alive
                  /\ bev' = [bev EXCEPT ![b] = h.bev]
                  /\ frames' = frames \o (IF h.failed THEN <<ErrorFrame("INTERNAL")>>
                                          ELSE <<>>)
                  /\ loop' = [l2 EXCEPT !.gotbreak = @ \/ h.failed]
                  /\ UNCHANGED <<sock, process>>
             [] outcome \in {"ok", "sendfail"} /\ sock[b] # <<>> ->
                  /\ sock' = [sock EXCEPT ![b] = SubSeq(@, n + 1, Len(@))]
                  /\ CASE ~called ->
                            /\ outcome = "ok"
                            /\ bev' = [bev EXCEPT ![b].input = data]
                            /\ loop' = l3
                            /\ UNCHANGED <<process, frames>>
                       [] called /\ bev[b].readcb = "handle_output" ->
                            /\ process' = [process EXCEPT !.saw_output = TRUE]
                            /\ IF outcome = "ok"
                               THEN /\ frames' = frames \o
                                          <<OutputFrame(output_stream(b), data)>>
                                    /\ bev' = [bev EXCEPT ![b].input = <<>>]
                                    /\ loop' = l3
                               ELSE /\ frames' = frames
                                    /\ bev' = [bev EXCEPT ![b].input = data]
                                    /\ loop' = [l3 EXCEPT !.gotbreak = TRUE]
                       [] called /\ bev[b].readcb = "handle_output_full" ->
                            /\ outcome = "ok"
                            /\ process' = [process EXCEPT !.output = v1_take(data)]
                            /\ bev' = [bev EXCEPT
                                   ![b].input = <<>>,
                                   ![b].readcb = "handle_output_discard",
                                   ![b].writecb = writecb_after_swap(process.input)]
                            /\ loop' = l3
                            /\ frames' = frames
                       [] called /\ bev[b].readcb = "handle_output_discard" ->
                            /\ outcome = "ok"
                            /\ bev' = [bev EXCEPT ![b].input = <<>>]
                            /\ loop' = l3
                            /\ UNCHANGED <<process, frames>>
    /\ UNCHANGED <<config, argv, protocol, pc, d, sum, ex, fdt, child, query, client>>

ReadInout == \E outcome \in {"ok", "error", "reset", "sendfail"} : ReadEvent("inout", outcome)

ReadErr == \E outcome \in {"ok", "error", "sendfail"} : ReadEvent("err", outcome)

\* The write event of process->inout: the queued standard input goes to the
\* child and handle_input_end runs, or the write fails and handle_io_event
\* runs (EPIPE when the child is gone, "error" for any other errno).
WriteEvent ==
    /\ may_run("write")
    /\ write_ready
    /\ \E outcome \in {"ok", "error"} :
        LET l2 == ran("write")
            gone == ~child_alive /\ bev.inout.output # <<>>
            events == IF outcome = "error" THEN "error" ELSE "reset"
            \* libevent disables writing, then calls handle_io_event
            h == handle_io_event([bev.inout EXCEPT !.enW = FALSE], events)
        IN  CASE outcome = "error" \/ gone ->
                   \* the write fails: EPIPE when the child has gone
                   /\ bev.inout.output # <<>>
                   /\ bev' = [bev EXCEPT !.inout = h.bev]
                   /\ frames' = frames \o (IF h.failed THEN <<ErrorFrame("INTERNAL")>>
                                           ELSE <<>>)
                   /\ loop' = [l2 EXCEPT !.gotbreak = @ \/ h.failed]
                   /\ child' = [child EXCEPT !.stdin_write =
                                     IF outcome = "error" THEN "error" ELSE "epipe"]
                   /\ hist' = [hist EXCEPT
                                  !.resets = @ + (IF outcome = "error" THEN 0 ELSE 1)]
              [] outcome = "ok" /\ ~gone ->
                   \* all written; the write callback, when there is one, is
                   \* handle_input_end: disable, shutdown(SHUT_WR).  Without
                   \* one the write event just goes away with the last byte.
                   /\ bev' = [bev EXCEPT !.inout.output = <<>>, !.inout.enW = FALSE]
                   /\ child' = IF bev.inout.writecb = "handle_input_end"
                               THEN [child EXCEPT !.stdin = @ \o bev.inout.output,
                                                  !.stdin_eof = TRUE,
                                                  !.shutdowns = @ + 1,
                                                  !.stdin_write = "all"]
                               ELSE [child EXCEPT !.stdin = @ \o bev.inout.output,
                                                  !.stdin_write = "all"]
                   /\ loop' = l2
                   /\ frames' = frames
                   /\ hist' = hist
    /\ UNCHANGED <<config, argv, protocol, pc, d, sum, process, ex, fdt, sock,
                   query, client>>

\* Mutant: the handler waits for any child (waitpid(-1, ...)).
handle_child_exit_any(proc, lp, ch, zombies) ==
    IF ch.pid = proc.pid /\ ch.state = "zombie"
    THEN [process |-> [proc EXCEPT !.status = ch.raw, !.reaped = TRUE],
          loop |-> [lp EXCEPT !.sigchld = FALSE, !.gotterm = TRUE],
          child |-> [ch EXCEPT !.state = "reaped"],
          zombies |-> zombies]
    ELSE IF zombies > 0
    THEN [process |-> [proc EXCEPT !.status = 0, !.reaped = TRUE],
          loop |-> [lp EXCEPT !.sigchld = FALSE, !.gotterm = TRUE],
          child |-> ch,
          zombies |-> zombies - 1]
    ELSE [process |-> proc, loop |-> lp, child |-> ch, zombies |-> zombies]

\* handle_child_exit: waitpid(process->pid, &process->status, WNOHANG)
\* returns the pid only when the child of this invocation has exited; then
\* the handler sets reaped, deletes the SIGCHLD event and asks the loop to
\* exit.  zombies counts the other children that have exited and have not
\* been waited for.
handle_child_exit(proc, lp, ch, zombies) ==
    IF ch.pid = proc.pid /\ ch.state = "zombie"
    THEN [process |-> [proc EXCEPT !.status = ch.raw, !.reaped = TRUE],
          loop |-> [lp EXCEPT !.sigchld = FALSE, !.gotterm = TRUE],
          child |-> [ch EXCEPT !.state = "reaped"],
          zombies |-> zombies]
    ELSE [process |-> proc, loop |-> lp, child |-> ch, zombies |-> zombies]

\* SIGCHLD arrived because the child of this invocation has exited.
ChildExitEvent ==
    /\ pc = "loop" /\ ~loop.gotterm /\ ~loop.gotbreak
    /\ loop.sigchld
    /\ child.state = "zombie"
    /\ LET r == handle_child_exit(process, loop, child, hist.zombies)
       IN  /\ process' = r.process
           /\ loop' = r.loop
           /\ child' = r.child
           /\ hist' = [hist EXCEPT
                  !.zombies = r.zombies,
                  !.reaps = @ + (IF r.process.reaped /\ ~process.reaped THEN 1 ELSE 0)]
    /\ UNCHANGED <<config, argv, protocol, pc, frames, d, sum, ex, fdt, bev, sock,
                   query, client>>

\* Another child of the server exits while the loop runs: SIGCHLD arrives
\* and the handler runs although the child of this invocation is alive.
OtherChildExit ==
    /\ pc = "loop" /\ ~loop.gotterm /\ ~loop.gotbreak
    /\ loop.sigchld
    /\ hist.faults
    /\ hist.stray < MaxOtherChildren
    /\ child_alive
    /\ LET r == handle_child_exit(process, loop, child, hist.zombies + 1)
       IN  /\ process' = r.process
           /\ loop' = r.loop
           /\ child' = r.child
           /\ hist' = [hist EXCEPT
                  !.zombies = r.zombies, !.stray = @ + 1,
                  !.reaps = @ + (IF r.process.reaped /\ ~process.reaped THEN 1 ELSE 0)]
    /\ UNCHANGED <<config, argv, protocol, pc, frames, d, sum, ex, fdt, bev, sock,
                   query, client>>

\* close(process->stdinout_fd) and close(process->stderr_fd) after
\* server_process_output has returned (lines 540-542).
exec_close_process_fds(t, proto, proc) ==
    LET t1 == fd_close(t, proc.stdinout_fd)
    IN  IF proto > 1 THEN fd_close(t1, proc.stderr_fd) ELSE t1

\* Mutant: a broken loop is cleaned up like a finished one.
break_return_frees(t, l) == fd_close(t, l.fd)

\* if (event_base_got_break(loop)) return false;  (nothing is freed)
break_return(t, l) == t

\* event_base_dispatch returns: on a break server_process_output returns
\* false at once and server_exec closes the sockets; otherwise the first
\* non-blocking pass begins.
LoopReturn ==
    /\ pc = "loop"
    /\ loop.gotterm \/ loop.gotbreak
    /\ IF loop.gotbreak
       THEN /\ ex' = [ex EXCEPT !.ok = FALSE]
            /\ fdt' = exec_close_process_fds(break_return(fdt, loop), protocol, process)
            /\ hist' = [hist EXCEPT !.unfreed = @ + 1]
            /\ pc' = "wait"
            /\ UNCHANGED <<process, loop>>
       ELSE /\ process' = [process EXCEPT !.saw_output = FALSE]
            /\ loop' = [loop EXCEPT !.gotterm = FALSE, !.seen = {}]
            /\ pc' = "drain"
            /\ UNCHANGED <<ex, fdt, hist>>
    /\ UNCHANGED <<config, argv, protocol, frames, d, sum, bev, child, sock, query, client>>

\* Every active event of a non-blocking pass has run.
pass_idle ==
    /\ ~(read_ready("inout") /\ "inout" \notin loop.seen)
    /\ ~(read_ready("err") /\ "err" \notin loop.seen)
    /\ ~(write_ready /\ "write" \notin loop.seen)

\* event_base_loop(loop, EVLOOP_NONBLOCK) polls again after it has run
\* callbacks (libevent leaves the loop only when a poll finds no active
\* event; a build whose loop returns after one poll never takes this step).
DrainRepoll ==
    /\ pc = "drain"
    /\ ~loop.gotbreak
    /\ loop.seen # {}
    /\ pass_idle
    /\ loop' = [loop EXCEPT !.seen = {}]
    /\ UNCHANGED <<config, argv, protocol, pc, frames, d, sum, process, ex, fdt,
                   bev, child, sock, hist, query, client>>

\* Mutant: the loop after the child's exit makes a single pass.
drain_again_never(proc, l) == FALSE

\* while (process->saw_output && !event_base_got_break(loop))
drain_again(proc, l) == proc.saw_output /\ ~l.gotbreak

\* A non-blocking pass ends (every active event has run, or the loop was
\* broken): either the next pass begins, or server_process_output pulls the
\* protocol-one output, frees the bufferevents, the SIGCHLD event and the
\* event base and returns, and server_exec closes the sockets.
DrainPassEnd ==
    /\ pc = "drain"
    /\ loop.gotbreak \/ pass_idle
    /\ IF drain_again(process, loop)
       THEN /\ process' = [process EXCEPT !.saw_output = FALSE]
            /\ loop' = [loop EXCEPT !.seen = {}, !.consumed = FALSE]
            /\ UNCHANGED <<pc, ex, fdt, bev>>
       ELSE /\ process' = [process EXCEPT
                   !.output = IF protocol = 1 /\ @ = NULL
                              THEN bev.inout.input ELSE @]
            /\ ex' = [ex EXCEPT !.ok = ~loop.gotbreak]
            /\ bev' = [inout |-> NoBev, err |-> NoBev]
            /\ loop' = NoLoop
            /\ fdt' = exec_close_process_fds(fd_close(fdt, loop.fd), protocol, process)
            /\ pc' = "wait"
    /\ UNCHANGED <<config, argv, protocol, frames, d, sum, child, sock, hist, query, client>>

\* Mutant: the raw wait status is reported as it is.
exit_status_raw(raw) == raw

\* The status server_exec reports (lines 545-548).
exit_status(raw) == IF WIFEXITED(raw) THEN WEXITSTATUS(raw) ELSE -1

\* Mutant: server_exec waits for the child whether or not the handler did.
blocking_wait_always(proc) == TRUE

\* if (!process->reaped) waitpid(process->pid, &process->status, 0);
blocking_wait(proc) == ~proc.reaped

\* The end of server_exec in the parent: the blocking waitpid when the
\* handler did not reap the child, the status, and the done label.  The
\* waitpid returns when the child has exited, and at once (ECHILD, the status
\* untouched) when the child has been waited for already.
ExecWait ==
    /\ pc = "wait"
    /\ blocking_wait(process) => child.state \in {"zombie", "reaped"}
    /\ LET raw == IF blocking_wait(process) /\ child.state = "zombie"
                  THEN child.raw ELSE process.status
       IN  process' = [process EXCEPT !.status = exit_status(raw)]
    /\ child' = [child EXCEPT !.state = "reaped"]
    /\ hist' = [hist EXCEPT !.waits = @ + (IF blocking_wait(process) THEN 1 ELSE 0)]
    /\ fdt' = exec_done(fdt, ex.stdinout_fds, ex.stderr_fds)
    /\ pc' = "return"
    /\ UNCHANGED <<config, argv, protocol, frames, d, sum, ex, loop, bev, sock, query, client>>

\* The frame server_run_command sends after server_exec has returned
\* (lines 906-912): none when it returned false.
command_final(proto, ok, output, status) ==
    IF ok
    THEN <<IF proto = 1 THEN V1OutputFrame(output, status) ELSE StatusFrame(status)>>
    ELSE <<>>

\* Mutant: the sweep keeps the first non-zero status it sees.
summary_status_first(status_all, ok, status) ==
    IF ok /\ status # 0 /\ status_all = 0 THEN status ELSE status_all

\* if (ok) { ... if (process.status != 0) status_all = process.status; }
summary_status(status_all, ok, status) ==
    IF ok /\ status # 0 THEN status ELSE status_all

\* What the caller of server_exec does with its result: server_run_command
\* sends the final frame (lines 907-912); server_send_summary collects the
\* output and the status and goes to the next rule (lines 628-635).
AfterExec ==
    /\ pc = "return"
    /\ IF sum.active
       THEN /\ sum' = [sum EXCEPT
                   !.output = IF ex.ok /\ protocol = 1 THEN @ \o process.output ELSE @,
                   !.status_all = summary_status(@, ex.ok, process.status),
                   !.i = @ + 1]
            /\ frames' = frames
            /\ pc' = "sweep"
       ELSE /\ frames' = frames \o command_final(protocol, ex.ok, process.output,
                                                  process.status)
            /\ pc' = "done"
            /\ UNCHANGED sum
    /\ hist' = [hist EXCEPT
                   !.results = Append(@, [ok |-> ex.ok, status |-> process.status,
                                           output |-> process.output])]
    /\ UNCHANGED <<config, argv, protocol, d, process, ex, fdt, loop, bev, child,
                   sock, query, client>>

(***************************************************************************)
(* Requests and policies explored                                          *)
(***************************************************************************)
C == <<"c">>
D == <<"d">>
S == <<"s">>
X == <<"x">>
L == <<"l">>
H == <<"i">>
SN == <<"s", NUL, "x">>
XN == <<"x", NUL, "y">>
CN == <<"c", NUL>>

Rule(command, subcommand, program, stdin_arg, summary, help, permit) ==
    [command |-> command, subcommand |-> subcommand, program |-> program,
     stdin_arg |-> stdin_arg, summary |-> summary, help |-> help, permit |-> permit,
     user |-> NULL, uid |-> 0, gid |-> 0]

\* The rule with a user= option: the account the program runs as.
RunAs(cline, user, uid, gid) ==
    [cline EXCEPT !.user = user, !.uid = uid, !.gid = gid]

ProgP == <<"/", "b", "/", "p">>
ProgQ == <<"q">>

RulePool ==
    { Rule(C, ALL, ProgP, 0, L, H, TRUE),
      Rule(C, ALL, ProgP, 0, L, H, FALSE),
      Rule(C, ALL, ProgP, -1, NULL, H, TRUE),
      Rule(C, ALL, ProgP, -1, NULL, NULL, FALSE),
      Rule(C, ALL, ProgP, 2, L, NULL, TRUE),
      Rule(C, S, ProgP, 1, L, H, TRUE),
      Rule(C, EMPTY, ProgQ, 3, NULL, NULL, TRUE),
      Rule(D, ALL, ProgQ, 0, L, NULL, TRUE),
      Rule(ALL, ALL, ProgQ, 0, NULL, NULL, TRUE),
      Rule(HELP, ALL, ProgQ, 0, L, H, TRUE) }

Policies ==
    {<<>>} \cup {<<r>> : r \in RulePool} \cup {<<r, q>> : r \in RulePool, q \in RulePool}

Requests ==
    { <<>>, <<C>>, <<CN>>, <<C, S>>, <<C, SN>>, <<C, S, X>>, <<C, S, XN>>,
      <<C, S, <<>>, X>>, <<C, S, XN, X>>, <<C, S, X, XN>>, <<D>>,
      <<HELP>>, <<HELP, C>>, <<HELP, D>>, <<HELP, SN>>, <<HELP, C, S>>,
      <<HELP, C, SN>>, <<HELP, C, S, X>>, <<HELP, C, S, XN>> }

\* The requests whose children are followed byte by byte: a command without
\* standard input, one with standard input, a help request, and a summary
\* sweep over two rules.
StreamCases ==
    { [config |-> <<Rule(C, ALL, ProgP, 0, L, H, TRUE)>>, argv |-> <<C, S>>],
      [config |-> <<Rule(C, ALL, ProgP, -1, NULL, H, TRUE)>>, argv |-> <<C, S, X>>],
      [config |-> <<Rule(C, ALL, ProgP, 0, L, H, TRUE),
                    Rule(D, ALL, ProgQ, 0, L, NULL, TRUE)>>, argv |-> <<HELP>>] }

\* The requests whose children are followed call by call from fork to the
\* program: a rule without user=, one with a user other than root, one with
\* user root, and a summary sweep over two rules.
ChildCases ==
    { [config |-> <<Rule(C, ALL, ProgP, 0, NULL, NULL, TRUE)>>, argv |-> <<C, S>>],
      [config |-> <<RunAs(Rule(C, ALL, ProgP, -1, NULL, NULL, TRUE), <<"u">>, 1000, 100)>>,
       argv |-> <<C, S, X>>],
      [config |-> <<RunAs(Rule(C, ALL, ProgP, 0, NULL, NULL, TRUE), <<"r">>, 0, 0)>>,
       argv |-> <<C, S>>],
      [config |-> <<RunAs(Rule(C, ALL, ProgP, 0, L, NULL, TRUE), <<"u">>, 1000, 100),
                    Rule(D, ALL, ProgQ, 0, L, NULL, TRUE)>>, argv |-> <<HELP>>] }

\* The session: the peer's hostname is known (NULL when it is not).
KnownPeer == [hostname |-> <<"h">>]

NoHist ==
    [forks |-> <<>>, acl |-> {}, nbytes |-> 0, budget |-> 0, socketpairs |-> 0,
     created |-> <<>>, forkfail |-> 0, unfreed |-> 0, waits |-> 0, execs |-> <<>>,
     results |-> <<>>, swaps |-> 0, faults |-> FALSE, stray |-> 0, zombies |-> 0,
     resets |-> 0, reaps |-> 0]

NoQuery == [command |-> NULL, subcommand |-> NULL, policy |-> <<>>, result |-> 0]

InitRest ==
    /\ protocol \in {1, 2}
    /\ pc = "start"
    /\ frames = <<>>
    /\ d = NoLocals
    /\ sum = NoSummary
    /\ process = EmptyProcess
    /\ ex = NoExec
    /\ fdt = InitialFds
    /\ loop = NoLoop
    /\ bev = [inout |-> NoBev, err |-> NoBev]
    /\ child = NoChild
    /\ sock = NoSock
    /\ query = NoQuery

Init ==
    /\ \/ /\ config \in Policies
          /\ argv \in Requests
          /\ hist = NoHist
          /\ client = KnownPeer
       \/ /\ \E c \in StreamCases : config = c.config /\ argv = c.argv
          /\ hist = [NoHist EXCEPT !.budget = MaxChildBytes]
          /\ client = KnownPeer
       \/ /\ \E c \in ChildCases : config = c.config /\ argv = c.argv
          /\ hist = [NoHist EXCEPT !.faults = TRUE]
          /\ client \in {KnownPeer, [KnownPeer EXCEPT !.hostname = NULL]}
    /\ InitRest

Next ==
    \/ RunCommand
    \/ SummaryIter
    \/ ExecStart
    \/ ChildBranch
    \/ ChildWrite
    \/ ChildExit
    \/ ReadInout
    \/ ReadErr
    \/ WriteEvent
    \/ ChildExitEvent
    \/ OtherChildExit
    \/ LoopReturn
    \/ DrainRepoll
    \/ DrainPassEnd
    \/ ExecWait
    \/ AfterExec

Spec == Init /\ [][Next]_vars

(***************************************************************************)
(* The rule matcher on its own: find_config_line applied to every policy   *)
(* of up to MaxRules rules and every (command, subcommand) pair, either of *)
(* which may be absent.                                                    *)
(***************************************************************************)
MatchFields == {C, ALL, EMPTY}

MatchRules ==
    {Rule(c, s, ProgQ, 0, NULL, NULL, TRUE) : c \in MatchFields, s \in {S, ALL, EMPTY}}

RECURSIVE PoliciesOf(_)
PoliciesOf(n) ==
    IF n = 0 THEN {<<>>}
    ELSE LET shorter == PoliciesOf(n - 1)
         IN  shorter \cup {Append(p, r) : p \in {q \in shorter : Len(q) = n - 1},
                                          r \in MatchRules}

InitFind ==
    /\ config \in PoliciesOf(MaxRules)
    /\ \E c \in {NULL, C, D, EMPTY}, s \in {NULL, S, X, EMPTY, ALL} :
          query = [NoQuery EXCEPT !.command = c, !.subcommand = s, !.policy = config]
    /\ argv = <<>>
    /\ hist = NoHist
    /\ client = KnownPeer
    /\ protocol = 2
    /\ pc = "find"
    /\ frames = <<>>
    /\ d = NoLocals
    /\ sum = NoSummary
    /\ process = EmptyProcess
    /\ ex = NoExec
    /\ fdt = InitialFds
    /\ loop = NoLoop
    /\ bev = [inout |-> NoBev, err |-> NoBev]
    /\ child = NoChild
    /\ sock = NoSock

\* One call of find_config_line.
FindRule ==
    /\ pc = "find"
    /\ query' = [query EXCEPT
                    !.result = find_config_line(config, query.command, query.subcommand)]
    /\ pc' = "found"
    /\ UNCHANGED <<config, argv, protocol, frames, d, sum, process, ex, fdt, loop,
                   bev, child, sock, hist, client>>

NextFind == FindRule

SpecFind == InitFind /\ [][NextFind]_vars

(***************************************************************************)
(* Properties                                                              *)
(***************************************************************************)
IsTerminal(f) == f.type \in {"ERROR", "STATUS", "V1_OUTPUT"}

TerminalFrames == SelectSeq(frames, IsTerminal)

IsAccess(f) == f = ErrorFrame("ACCESS")

IsTooMany(f) == f = ErrorFrame("TOOMANY_ARGS")

NotTooMany(f) == ~IsTooMany(f)

IsStream1(f) == f.type = "OUTPUT" /\ f.stream = 1

IsStream2(f) == f.type = "OUTPUT" /\ f.stream = 2

RECURSIVE ConcatData(_)
ConcatData(fs) == IF fs = <<>> THEN <<>> ELSE fs[1].data \o ConcatData(Tail(fs))

IsPrefix(a, b) == Len(a) <= Len(b) /\ SubSeq(b, 1, Len(a)) = a

\* Everything the children of the request have written, in emission order.
Emitted == [k \in 1..hist.nbytes |-> Byte(k)]

SocketKinds == {"stdinout0", "stdinout1", "stderr0", "stderr1"}

\* C1: when server_run_command has returned, exactly one terminal frame has
\* been sent to the client: one ERROR, or one STATUS under protocol two, or
\* one V1_OUTPUT under protocol one.
C1_ExactlyOneTerminalFrame ==
    pc = "done" =>
        /\ Len(TerminalFrames) = 1
        /\ TerminalFrames[1].type = "STATUS" => protocol >= 2
        /\ TerminalFrames[1].type = "V1_OUTPUT" => protocol = 1

\* C2: a child is forked for a rule only after the ACL evaluator has
\* answered yes for that rule in this request; a command or help request
\* whose rule the evaluator refuses gets one ACCESS error as its last frame,
\* nothing but errors before it, and no socket pair and no fork; the summary
\* sweep launches no rule the evaluator refuses.
C2_NoForkWithoutAcl ==
    /\ \A k \in 1..Len(hist.forks) :
          /\ <<hist.forks[k].rule, TRUE>> \in hist.acl
          /\ config[hist.forks[k].rule].permit
    /\ (pc = "done" /\ ~sum.active /\ d.cline # 0 /\ <<d.cline, FALSE>> \in hist.acl) =>
          /\ Len(SelectSeq(frames, IsAccess)) = 1
          /\ frames[Len(frames)] = ErrorFrame("ACCESS")
          /\ \A k \in 1..Len(frames) : frames[k].type = "ERROR"
          /\ hist.socketpairs = 0
          /\ hist.forks = <<>>

C2_Witness ==
    /\ pc = "done" /\ ~sum.active /\ d.help
    /\ d.cline # 0 /\ <<d.cline, FALSE>> \in hist.acl

\* C3: under protocol two, when server_process_output has returned success
\* for the (first) child of a request, the chunks sent for stream 1 add up
\* to the bytes the child wrote to standard output, in order, and those for
\* stream 2 to the bytes it wrote to standard error.
C3_StreamsDeliveredInFull ==
    (protocol >= 2 /\ pc = "wait" /\ ex.ok /\ Len(hist.forks) = 1) =>
        /\ ConcatData(SelectSeq(frames, IsStream1)) = child.out
        /\ ConcatData(SelectSeq(frames, IsStream2)) = child.errb

\* C4: under protocol one, the buffer of every V1_OUTPUT frame, of a command
\* and of a summary sweep, is at most TOKEN_MAX_OUTPUT_V1 bytes long, and
\* that of a command is a prefix of what its child wrote, in emission order.
C4_V1OutputIsBoundedPrefix ==
    \A k \in 1..Len(frames) :
        frames[k].type = "V1_OUTPUT" =>
            /\ Len(frames[k].data) <= TOKEN_MAX_OUTPUT_V1
            /\ ~sum.active => IsPrefix(frames[k].data, Emitted)

\* C5: when the STATUS or V1_OUTPUT frame of a request has been sent, no
\* byte the child wrote is left unread on its sockets, and no frame follows
\* that frame.
C5_StatusAfterAllOutput ==
    \A k \in 1..Len(frames) :
        frames[k].type \in {"STATUS", "V1_OUTPUT"} =>
            /\ k = Len(frames)
            /\ sock.inout = <<>>
            /\ sock.err = <<>>

\* C6: when the request has reached an argv builder, every caller argument
\* that holds a nul octet is the argument delivered on standard input.
C6_NulOnlyInStdinArgument ==
    d.builder # "none" =>
        \A i \in 0..(Len(argv) - 1) :
            HasNul(Arg(argv, i)) =>
                d.builder = "command" /\ i >= 1 /\ i = d.stdin_idx

\* The error the checks of C7 give in their fixed order ("none" when all of
\* them pass, and for the summary sweep, which they do not cover).
EarliestMatch(cfg, command, subcommand) ==
    LET M == {k \in 1..Len(cfg) : line_matches(cfg[k], command, subcommand)}
    IN  IF M = {} THEN 0 ELSE CHOOSE k \in M : \A m \in M : k <= m

ExpectedError(cfg, av) ==
    IF Len(av) = 0 \/ HasNul(av[1]) \/ (Len(av) >= 2 /\ HasNul(av[2]))
    THEN "BAD_COMMAND"
    ELSE LET sub == IF Len(av) >= 2 THEN av[2] ELSE NULL
             first == EarliestMatch(cfg, av[1], sub)
             builtin == first = 0 /\ av[1] = HELP
             help == builtin /\ sub # NULL
             \* a nul octet in the third token is refused before any lookup
             rule == IF help
                     THEN IF Len(av) >= 3 /\ HasNul(av[3]) THEN 0
                          ELSE EarliestMatch(cfg, sub, IF Len(av) >= 3 THEN av[3] ELSE NULL)
                     ELSE first
             stdin == IF help \/ rule = 0 THEN 0
                      ELSE IF cfg[rule].stdin_arg = -1 THEN Len(av) - 1
                      ELSE cfg[rule].stdin_arg
         IN  IF builtin /\ sub = NULL THEN "none"
             ELSE IF \E i \in 1..(Len(av) - 1) : i # stdin /\ HasNul(Arg(av, i))
             THEN "BAD_COMMAND"
             ELSE IF rule = 0 THEN "UNKNOWN_COMMAND"
             ELSE IF ~cfg[rule].permit THEN "ACCESS"
             ELSE IF help /\ cfg[rule].help = NULL THEN "NO_HELP"
             ELSE "none"

\* C7: a request that fails one of the checks (bad command, nul octet in an
\* argument that is not the standard input, unknown command, ACL, missing
\* help) gets the error of the first check it fails, and no child is forked.
C7_FirstFailingCheck ==
    (pc = "done" /\ ExpectedError(config, argv) # "none") =>
        /\ SelectSeq(frames, NotTooMany) = <<ErrorFrame(ExpectedError(config, argv))>>
        /\ hist.forks = <<>>

\* C8: when server_run_command has returned, the server's open descriptors
\* are the ones it had before the request.
C8_NoDescriptorLeak ==
    pc = "done" => fdt.open = InitialFds.open

\* C9: outside server_exec none of the socket pair descriptors it created is
\* open in the server, whichever way it returned; after a failed fork the
\* last frame sent is the INTERNAL error.
C9_SocketpairsClosedOnReturn ==
    /\ pc \in {"return", "sweep", "done"} =>
          \A e \in fdt.open : e[2] \notin SocketKinds
    /\ (pc = "return" /\ process.pid = -1) =>
          frames # <<>> /\ frames[Len(frames)] = ErrorFrame("INTERNAL")

C9_Witness ==
    /\ pc = "return" /\ process.pid = -1 /\ protocol = 2
    /\ Len(hist.created) = 4

\* C10: find_config_line returns the first rule of the policy that matches
\* (command, subcommand), returns NULL exactly when no rule matches, and
\* leaves the policy as it was.
C10_FindReturnsEarliestMatch ==
    pc = "found" =>
        LET M == {k \in 1..Len(config) :
                     line_matches(config[k], query.command, query.subcommand)}
        IN  /\ (M = {}) <=> (query.result = 0)
            /\ M # {} => query.result \in M /\ \A k \in M : query.result <= k
            /\ config = query.policy

C10_Witness ==
    /\ pc = "found"
    /\ Len(config) >= 3
    /\ query.result = 2
    /\ line_matches(config[3], query.command, query.subcommand)
    /\ ~line_matches(config[1], query.command, query.subcommand)

\* The position create_argv_command leaves out, as the policy language
\* defines stdin_arg, and the arguments it keeps, in order.
OmittedIndex(cline, av) ==
    IF cline.stdin_arg = -1 THEN Len(av) - 1 ELSE cline.stdin_arg

KeptArguments(cline, av) ==
    LET keep == {i \in 1..(Len(av) - 1) : i # OmittedIndex(cline, av)}
        nth(j) == CHOOSE i \in keep : Cardinality({k \in keep : k < i}) = j - 1
    IN  [j \in 1..Cardinality(keep) |-> av[nth(j) + 1]]

\* C11: the argv create_argv_command builds is the basename of the rule's
\* program followed by the caller's arguments 1..n-1 in order, empty ones
\* kept, with exactly the standard input position left out; the argument at
\* that position, when it is one of 1..n-1, is the standard input payload,
\* and otherwise nothing is left out and there is no payload; for a rule
\* with stdin_arg = 0 the argv after its first entry is the caller's.
C11_CommandArgv ==
    d.builder = "command" =>
        LET cline == config[d.cline]
            s == OmittedIndex(cline, argv)
        IN  /\ d.req_argv = <<basename(cline.program)>> \o KeptArguments(cline, argv)
            /\ (s >= 1 /\ s <= Len(argv) - 1) =>
                  /\ process.input = argv[s + 1]
                  /\ Len(d.req_argv) = Len(argv) - 1
            /\ ~(s >= 1 /\ s <= Len(argv) - 1) =>
                  /\ process.input = NULL
                  /\ Len(d.req_argv) = Len(argv)
            /\ cline.stdin_arg = 0 => Tail(d.req_argv) = Tail(argv)

C11_Witness ==
    /\ d.builder = "command"
    /\ Len(argv) = 4
    /\ config[d.cline].stdin_arg = -1
    /\ process.input = argv[4]
    /\ d.req_argv[3] = <<>>

\* The rule a command request resolves to (0 when there is none or the
\* request has no command), and the position of the argument that rule
\* takes on standard input (0 when it takes none of the request's).
MatchedRule(cfg, av) ==
    IF Len(av) = 0 THEN 0
    ELSE EarliestMatch(cfg, cmd_command(av), cmd_subcommand(av))

StdinPosition(cfg, av) ==
    LET r == MatchedRule(cfg, av)
        s == IF r = 0 THEN 0 ELSE OmittedIndex(cfg[r], av)
    IN  IF s >= 1 /\ s <= Len(av) - 1 THEN s ELSE 0

\* A request whose only nul octets are in the argument its rule takes on
\* standard input, at a position of at least lowest, and which the ACL
\* permits.
NulOnlyOnStdin(lowest) ==
    LET s == StdinPosition(config, argv)
    IN  /\ s >= lowest
        /\ HasNul(argv[s + 1])
        /\ \A i \in 0..(Len(argv) - 1) : i # s => ~HasNul(Arg(argv, i))
        /\ config[MatchedRule(config, argv)].permit

StdinDeliveredIntact ==
    LET s == StdinPosition(config, argv)
    IN  /\ d.builder = "command"
        /\ process.input = argv[s + 1]
        /\ \A k \in 1..Len(frames) : frames[k] # ErrorFrame("BAD_COMMAND")
        /\ \A k \in 1..Len(hist.forks) : hist.forks[k].input = argv[s + 1]
        /\ child.stdin_eof => child.stdin = argv[s + 1]

\* C12 as stated: a request whose argument at the standard input position
\* of its rule, any position from 1 on, holds nul octets is accepted, and
\* the child's standard input is that argument, nul octets included.
C12_StdinNulAnyPosition ==
    (pc # "start" /\ NulOnlyOnStdin(1)) => StdinDeliveredIntact

\* C12, amended: the same for a standard input position from 2 on (the
\* command and the subcommand may never hold a nul octet).
C12_StdinNulPastSubcommand ==
    (pc # "start" /\ NulOnlyOnStdin(2)) => StdinDeliveredIntact

C12_Witness ==
    /\ NulOnlyOnStdin(2)
    /\ StdinPosition(config, argv) = 2 /\ Len(argv) = 4
    /\ child.stdin_eof
    /\ HasNul(child.stdin)

\* C13: a request "help cmd [sub]" whose rule, looked up with (cmd, sub),
\* is permitted and has a help token runs that rule's program with the argv
\* [basename(program), help token], followed by sub when the request has
\* one, and with nothing on standard input.
C13_HelpArgv ==
    (d.builder = "help" /\ Len(argv) <= 3) =>
        LET r == EarliestMatch(config, argv[2], Arg(argv, 2))
            expected == <<basename(config[r].program), config[r].help>>
                        \o (IF Len(argv) = 3 THEN <<argv[3]>> ELSE <<>>)
        IN  /\ r # 0
            /\ config[r].permit
            /\ config[r].help # NULL
            /\ d.req_argv = expected
            /\ process.input = NULL
            /\ \A k \in 1..Len(hist.forks) :
                  /\ hist.forks[k].program = config[r].program
                  /\ hist.forks[k].argv = expected
                  /\ hist.forks[k].input = NULL

IsInternal(f) == f = ErrorFrame("INTERNAL")

\* The rules of a policy a summary sweep is to run, in policy order.
QualifyingRules(cfg) ==
    LET Q == {k \in 1..Len(cfg) : /\ cfg[k].subcommand = ALL
                                  /\ cfg[k].permit
                                  /\ cfg[k].summary # NULL}
        nth(j) == CHOOSE k \in Q : Cardinality({m \in Q : m < k}) = j - 1
    IN  [j \in 1..Cardinality(Q) |-> nth(j)]

\* C14: a summary sweep calls server_exec exactly once for every rule whose
\* subcommand is "ALL", which the ACL permits and which has a summary token,
\* in policy order, and for no other rule; each child forked is run with the
\* argv [basename(program), summary] and no standard input, and a launch
\* begins only when the child before it has been waited for.
C14_SweepLaunchesQualifyingRules ==
    sum.active =>
        /\ pc = "done" => hist.execs = QualifyingRules(config)
        /\ IsPrefix(hist.execs, QualifyingRules(config))
        /\ Len(hist.forks) <= Len(hist.execs)
        /\ \A k \in 1..Len(hist.forks) :
              LET r == hist.forks[k].rule
              IN  /\ \E j \in 1..Len(hist.execs) : hist.execs[j] = r
                  /\ \A m \in 1..(k - 1) : hist.forks[m].rule < r
                  /\ hist.forks[k].program = config[r].program
                  /\ hist.forks[k].argv = <<basename(config[r].program), config[r].summary>>
                  /\ hist.forks[k].input = NULL
        /\ Len(hist.execs) - Len(hist.forks) <= Len(SelectSeq(frames, IsInternal))
        /\ pc = "exec" => child.state \in {"none", "reaped"}

C14_Witness ==
    /\ sum.active /\ pc = "done"
    /\ Len(hist.forks) = 2
    /\ hist.forks[1].rule = 1 /\ hist.forks[2].rule = 2
    /\ hist.forks[1].argv # hist.forks[2].argv

\* C15: a summary sweep ends with a V1_OUTPUT or STATUS frame exactly when
\* at least one of its server_exec calls returned success, and with the
\* UNKNOWN_COMMAND error otherwise.
C15_SweepOkAny ==
    (sum.active /\ pc = "done") =>
        LET last == frames[Len(frames)]
            any == \E k \in 1..Len(hist.results) : hist.results[k].ok
        IN  /\ any <=> last.type \in {"STATUS", "V1_OUTPUT"}
            /\ ~any => last = ErrorFrame("UNKNOWN_COMMAND")

\* The positions of the server_exec calls of the request that returned
\* success with a status other than zero.
NonZeroResults == {k \in 1..Len(hist.results) :
                      hist.results[k].ok /\ hist.results[k].status # 0}

\* C16: the status in the frame that ends a summary sweep is the status of
\* the last invocation, in policy order, that returned a status other than
\* zero, and 0 when no invocation returned one.
C16_SweepStatusIsLastNonZero ==
    (sum.active /\ pc = "done" /\ frames[Len(frames)].type \in {"STATUS", "V1_OUTPUT"}) =>
        LET last == frames[Len(frames)]
        IN  IF NonZeroResults = {}
            THEN last.status = 0
            ELSE LET k == CHOOSE k \in NonZeroResults : \A m \in NonZeroResults : m <= k
                 IN  last.status = hist.results[k].status

C16_Witness ==
    /\ sum.active /\ pc = "done"
    /\ NonZeroResults = {1, 2}
    /\ hist.results[1].status # hist.results[2].status
    /\ frames[Len(frames)].type = "STATUS"
    /\ frames[Len(frames)].status = hist.results[2].status

\* C17: a summary sweep in which exactly one rule qualifies sends, for the
\* same run of the rule's program, what the direct request for that rule
\* sends: the frames of server_exec followed by the frame server_run_command
\* sends for the result of that server_exec call.
C17_SingleRuleSweepEqualsDirect ==
    (sum.active /\ pc = "done" /\ Len(QualifyingRules(config)) = 1) =>
        LET r == hist.results[1]
        IN  frames = SubSeq(frames, 1, Len(frames) - 1)
                     \o command_final(protocol, r.ok, r.output, r.status)

\* A command run directly under protocol one has returned without any system
\* call of the loop having failed (no INTERNAL error was sent).
V1CommandDone ==
    /\ protocol = 1 /\ ~sum.active /\ pc = "done"
    /\ Len(hist.forks) = 1
    /\ \A k \in 1..Len(frames) : ~IsInternal(frames[k])

\* C18: when a protocol-one child has written more than TOKEN_MAX_OUTPUT_V1
\* bytes, the request ends with one V1_OUTPUT frame that holds exactly the
\* first TOKEN_MAX_OUTPUT_V1 bytes written and the child's own exit status;
\* the rest is read and dropped, the loop is not broken and no error is sent.
C18_V1ExcessDiscarded ==
    (V1CommandDone /\ hist.nbytes > TOKEN_MAX_OUTPUT_V1) =>
        /\ ex.ok
        /\ frames = <<V1OutputFrame(SubSeq(Emitted, 1, TOKEN_MAX_OUTPUT_V1),
                                    exit_status(child.raw))>>
        /\ sock.inout = <<>>

\* C19: when a protocol-one child has written exactly TOKEN_MAX_OUTPUT_V1
\* bytes, the V1_OUTPUT frame holds all of them and the read callback was
\* never replaced by handle_output_discard.
C19_V1ExactFitNoDiscard ==
    (V1CommandDone /\ hist.nbytes = TOKEN_MAX_OUTPUT_V1) =>
        /\ frames = <<V1OutputFrame(Emitted, exit_status(child.raw))>>
        /\ hist.swaps = 0

\* C20: when server_exec returns after a successful fork, the status it
\* reports is the exit code of the child (eight bits) when the child exited,
\* and -1 when a signal ended it; the raw status is the one the SIGCHLD
\* handler reaped, or else that of one blocking waitpid.
C20_ReportedStatus ==
    (pc = "return" /\ process.pid > 0) =>
        /\ child.state = "reaped"
        /\ \/ \E code \in 0..255 : child.raw = 256 * code /\ process.status = code
           \/ child.raw % 128 # 0 /\ process.status = -1
        /\ ~sum.active => hist.waits = (IF process.reaped THEN 0 ELSE 1)
        /\ hist.waits <= Len(hist.forks)

C20_Witness ==
    /\ pc = "return" /\ process.pid > 0
    /\ ~process.reaped /\ hist.waits = 1
    /\ child.raw = 65280 /\ process.status = 255

\* The status the terminal frame f carries.
FrameStatus(f) == f.status

IsError(f) == f.type = "ERROR"

\* A directly launched command has ended, its child died of a failed call
\* between fork and the program, and server_exec returned success.
ChildFailureReported ==
    /\ pc = "done"
    /\ ~sum.active
    /\ child.died
    /\ ex.ok

\* C21: when the child fails before or at exec (a setenv, initgroups, setgid,
\* setuid or execv failure), the caller sees the failure as a status only: no
\* ERROR frame is sent and the terminal frame carries the status -1.
C21_ChildFailureStatus ==
    ChildFailureReported =>
        /\ SelectSeq(frames, IsError) = <<>>
        /\ frames # <<>>
        /\ FrameStatus(frames[Len(frames)]) = -1

\* The request is a help request that no rule matches as a command and that
\* has more than three tokens.
LongHelpRequest(cfg, av) ==
    /\ Len(av) > 3
    /\ ~head_has_nul(av)
    /\ cmd_command(av) = HELP
    /\ find_config_line(cfg, HELP, cmd_subcommand(av)) = 0

\* C22: a help request with more than three tokens that no rule matches as
\* (help, X) gets an ERROR_TOOMANY_ARGS frame and is then processed exactly as
\* its first three tokens would be: same lookups, same rule, same frames
\* after the TOOMANY_ARGS frame, same argv for the child.
C22_LongHelpAsFirstThreeTokens ==
    pc # "start" /\ LongHelpRequest(config, argv) =>
        LET short == run_command(config, SubSeq(argv, 1, 3))
        IN  /\ IsPrefix(<<ErrorFrame("TOOMANY_ARGS")>> \o short.frames, frames)
            /\ d.lookups = short.locals.lookups
            /\ d.cline = short.locals.cline
            /\ d.req_argv = short.locals.req_argv
            /\ short.next = "done" <=> (pc = "done" /\ hist.execs = <<>>)
            /\ pc = "done" /\ short.next = "done" =>
                   frames = <<ErrorFrame("TOOMANY_ARGS")>> \o short.frames

\* The rule with its command field, its subcommand field, or both replaced
\* by ALL.
Widened(cline) ==
    { [cline EXCEPT !.command = ALL],
      [cline EXCEPT !.subcommand = ALL],
      [cline EXCEPT !.command = ALL, !.subcommand = ALL] }

\* C23: line_matches is monotone in wildcards: a rule that matches the
\* request still matches it after its command field, its subcommand field or
\* both are replaced by ALL, and a rule with both fields ALL matches every
\* request, with or without subcommand.
C23_WildcardsOnlyWiden ==
    pc = "found" =>
        /\ \A k \in 1..Len(config) :
              line_matches(config[k], query.command, query.subcommand) =>
                  \A wide \in Widened(config[k]) :
                      line_matches(wide, query.command, query.subcommand)
        /\ \A k \in 1..Len(config) : \A wide \in Widened(config[k]) :
              wide.command = ALL /\ wide.subcommand = ALL =>
                  line_matches(wide, query.command, query.subcommand)

\* A rule with literal fields matched a request that has a subcommand.
C23_Witness ==
    /\ pc = "found"
    /\ query.result # 0
    /\ query.subcommand # NULL
    /\ config[query.result].command \notin {ALL, EMPTY}
    /\ config[query.result].subcommand \notin {ALL, EMPTY}

FailedResult(r) == ~r.ok

IsFinal(f) == f.type \in {"STATUS", "V1_OUTPUT"}

\* C24: whenever server_exec returns failure, exactly one ERROR_INTERNAL
\* frame has been sent for that launch (so the ERROR_INTERNAL frames sent so
\* far are as many as the launches that failed so far), and
\* server_run_command sends no STATUS or V1_OUTPUT frame for a launch that
\* failed.
C24_OneInternalErrorPerFailedLaunch ==
    /\ pc = "return" =>
          Len(SelectSeq(frames, IsInternal)) =
              Len(SelectSeq(hist.results, FailedResult)) + (IF ex.ok THEN 0 ELSE 1)
    /\ pc = "done" /\ ~sum.active /\ hist.results # <<>> /\ ~hist.results[1].ok =>
          SelectSeq(frames, IsFinal) = <<>>

\* C25: after the child was reaped the multiplexer runs non-blocking passes
\* and runs another one whenever the previous pass consumed output of the
\* child, under both protocols: the passes end only after a pass that
\* consumed no output or after an error broke the loop.
C25_DrainUntilQuietPass ==
    [][pc = "drain" /\ pc' = "wait" => ~loop.consumed \/ loop.gotbreak]_vars

\* A launch is under way or has just returned: process and child are those
\* of the current invocation.
InLaunch == pc \in {"loop", "drain", "wait", "return"}

\* What holds of the standard input of every invocation: the payload is
\* queued at loop entry, the shutdown comes at most once and only after the
\* whole payload, the discard callback of protocol one is installed together
\* with the write callback, and without a payload nothing is written or shut
\* down.
StdinDeliverySafe ==
    InLaunch =>
        IF process.input = NULL
        THEN /\ ~bev.inout.enW
             /\ bev.inout.writecb = "none"
             /\ child.stdin_write = "none"
             /\ child.shutdowns = 0
             /\ ~child.stdin_eof
        ELSE /\ pc = "loop" /\ child.stdin_write = "none" /\ bev.inout.enR =>
                   bev.inout.enW /\ bev.inout.output = process.input
             /\ bev.inout.exists => bev.inout.writecb = "handle_input_end"
             /\ child.shutdowns <= 1
             /\ child.stdin_eof <=> child.shutdowns = 1
             /\ child.shutdowns = 1 => child.stdin = process.input
             /\ child.stdin \in {<<>>, process.input}

C27_HandlerActsOnOwnChildOnly ==
    [][/\ hist'.stray # hist.stray =>
             /\ process' = process
             /\ loop' = loop
             /\ child' = child
             /\ hist'.zombies = hist.zombies + 1
       /\ pc = "loop" /\ process'.reaped /\ ~process.reaped =>
             /\ child.state = "zombie"
             /\ child.pid = process.pid
             /\ process'.status = child.raw
             /\ child'.state = "reaped"
             /\ loop'.gotterm
             /\ ~loop'.sigchld
             /\ hist'.zombies = hist.zombies]_vars

\* A SIGCHLD of another child was ignored, and later the handler reaped the
\* child of the invocation.
C27_Witness ==
    /\ pc = "loop"
    /\ hist.stray = 1
    /\ hist.zombies = 1
    /\ process.reaped
    /\ child.state = "reaped"
    /\ loop.gotterm

Streams == {"inout", "err"}

\* A directly launched command has ended after an ECONNRESET or EPIPE on a
\* stream of its child, and nothing else broke the loop.
EndedAfterReset ==
    /\ pc = "done"
    /\ ~sum.active
    /\ hist.resets > 0
    /\ ex.ok

\* The last frame is the normal terminal frame with the child's status.
NormalTerminalFrame ==
    /\ frames # <<>>
    /\ IsFinal(frames[Len(frames)])
    /\ FrameStatus(frames[Len(frames)]) = exit_status(child.raw)
    /\ SelectSeq(frames, IsInternal) = <<>>

\* C28: ECONNRESET or EPIPE on a child stream is recovered locally: reading
\* and writing on that bufferevent are disabled, no frame is sent, the loop
\* is not broken, and the invocation still ends with its normal terminal
\* frame carrying the child's status.  A plain EOF only disables reading on
\* that stream: the other stream and the pending write of the standard input
\* are untouched.
C28_ResetAndEofRecoveredLocally ==
    [][/\ hist'.resets # hist.resets =>
             /\ \E b \in Streams :
                   /\ ~bev'[b].enR /\ ~bev'[b].enW
                   /\ \A o \in Streams \ {b} : bev'[o] = bev[o]
             /\ frames' = frames
             /\ loop'.gotbreak = loop.gotbreak
             /\ pc' = pc
       /\ \A b \in Streams :
             (/\ bev[b].enR /\ ~bev'[b].enR /\ bev'[b].exists
              /\ hist'.resets = hist.resets /\ frames' = frames) =>
                 /\ bev'[b] = [bev[b] EXCEPT !.enR = FALSE]
                 /\ \A o \in Streams \ {b} : bev'[o] = bev[o]
                 /\ loop'.gotbreak = loop.gotbreak
                 /\ child' = child
                 /\ pc' = pc
       /\ (EndedAfterReset => NormalTerminalFrame)']_vars

\* A command ended with its terminal frame after the write of its standard
\* input had failed with EPIPE.
C28_Witness ==
    /\ EndedAfterReset
    /\ NormalTerminalFrame
    /\ child.stdin_write = "epipe"

Made(call) == \E k \in 1..Len(child.calls) : child.calls[k] = call

\* The position of a call the child has made.
CallIndex(call) == CHOOSE k \in 1..Len(child.calls) : child.calls[k] = call

\* The environment variables the child sets for this session.
EnvironmentCalls ==
    {"setenv REMUSER", "setenv REMOTE_USER", "setenv REMOTE_ADDR",
     "setenv REMCTL_COMMAND"}
    \cup (IF client.hostname # NULL THEN {"setenv REMOTE_HOST"} ELSE {})

IdentityCalls == {"initgroups", "setgid", "setuid"}

\* The rule of the current launch names a user other than root.
DropsIdentity == config[ex.cline].user # NULL /\ config[ex.cline].uid > 0

\* The child of the current launch has got past fork.
ChildStarted ==
    /\ InLaunch
    /\ child.pid = process.pid
    /\ child.state \in {"running", "zombie", "reaped"}

\* The program runs: every call succeeded and execv was the last one.
ProgramRuns == ChildStarted /\ ~child.died

\* C29: the program is exec'd only after every environment variable has
\* been set and, exactly when the rule has a user and uid > 0, after
\* initgroups, setgid and setuid have succeeded in that order; when a call
\* fails the child exits with the fatal status and never reaches execv, so
\* the program never runs with a partly changed identity.
C29_ExecAfterEnvironmentAndIdentity ==
    /\ ProgramRuns =>
          /\ child.calls[Len(child.calls)] = "execv"
          /\ \A e \in EnvironmentCalls : Made(e) /\ CallIndex(e) < CallIndex("execv")
          /\ \A c \in IdentityCalls : Made(c) <=> DropsIdentity
          /\ DropsIdentity =>
                /\ CallIndex("initgroups") < CallIndex("setgid")
                /\ CallIndex("setgid") < CallIndex("setuid")
                /\ CallIndex("setuid") < CallIndex("execv")
                /\ \A e \in EnvironmentCalls : CallIndex(e) < CallIndex("initgroups")
    /\ ChildStarted /\ child.died =>
          /\ child.raw = exit_raw(child_die_handler)
          /\ child.out = <<>> /\ child.errb = <<>>
          /\ \A k \in 1..(Len(child.calls) - 1) : child.calls[k] # "execv"
          /\ Made("setgid") => Made("initgroups") /\ DropsIdentity
          /\ Made("setuid") => Made("setgid")

\* The program runs under a rule with a user other than root.
C29_Witness ==
    /\ pc = "loop"
    /\ ProgramRuns
    /\ DropsIdentity
    /\ Made("setuid")

\* server_process_output is not running: it has returned or was not called.
MultiplexerReturned == pc \in {"wait", "return", "sweep", "done"}

\* C30: once the multiplexer has returned, with success or after an error
\* broke the loop, nothing of the invocation is left: no SIGCHLD event is
\* registered, no bufferevent and no event base is allocated.
C30_NothingLeftAfterLoop ==
    MultiplexerReturned =>
        /\ ~loop.sigchld
        /\ ~loop.exists
        /\ ~bev.inout.exists
        /\ ~bev.err.exists
        /\ \A e \in fdt.open : e[2] # "event_base"

(***************************************************************************)
(* C31: the built-in help handling and rules that match "help"             *)
(***************************************************************************)
BuiltinHelpEntered ==
    \/ sum.active
    \/ d.help
    \/ \E k \in 1..Len(frames) : IsTooMany(frames[k])

\* C31: the summary sweep, the help rewrite and TOOMANY_ARGS happen only for
\* the command "help" when no rule matches ("help", subcommand); when a rule
\* matches that pair, wildcards included, the request is an ordinary command
\* looked up once and run against the first such rule.
C31_BuiltinHelpOnlyWithoutMatchingRule ==
    pc # "start" =>
        LET command == cmd_command(argv)
            subcommand == cmd_subcommand(argv)
            k == EarliestMatch(config, HELP, subcommand)
        IN  /\ BuiltinHelpEntered => (command = HELP /\ k = 0)
            /\ (Arg(argv, 0) # NULL /\ ~head_has_nul(argv) /\ command = HELP /\ k # 0)
                   => /\ ~BuiltinHelpEntered
                      /\ d.cline = k
                      /\ d.lookups = <<<<HELP, subcommand>>>>
                      /\ d.builder \in {"none", "command"}
                      /\ \A e \in 1..Len(hist.execs) : hist.execs[e] = k

\* A "help" request with a subcommand that a wildcard rule matches was launched
\* as an ordinary command and has finished.
C31_Witness ==
    /\ pc = "done"
    /\ cmd_command(argv) = HELP
    /\ cmd_subcommand(argv) # NULL
    /\ EarliestMatch(config, HELP, cmd_subcommand(argv)) # 0
    /\ config[EarliestMatch(config, HELP, cmd_subcommand(argv))].subcommand = ALL
    /\ d.builder = "command"
    /\ Len(hist.execs) = 1

(***************************************************************************)
(* C32: every forked child is waited for exactly once                      *)
(***************************************************************************)
\* The children forked so far that no waitpid has collected: the forks less
\* the blocking waits of server_exec and the reaps of the SIGCHLD handler.
Unreaped == Len(hist.forks) - hist.waits - hist.reaps

\* C32: at most one forked child is unreaped at any moment; when server_exec
\* returns after a successful fork its child has been waited for exactly once,
\* by the SIGCHLD handler or by the blocking wait; and the next launch of a
\* sweep begins only when the previous child has been reaped.
C32_EveryChildWaitedForOnce ==
    /\ Unreaped \in {0, 1}
    /\ Unreaped = 1 <=> child.state \in {"forked", "running", "zombie"}
    /\ (pc = "return" /\ process.pid > 0) =>
           /\ Unreaped = 0
           /\ child.pid = process.pid /\ child.state = "reaped"
    /\ pc \in {"exec", "sweep", "done"} =>
           /\ Unreaped = 0
           /\ child.state \in {"none", "reaped"}

\* The second launch of a sweep has returned; the handler reaped one of the
\* two children and the blocking wait the other.
C32_Witness ==
    /\ sum.active
    /\ pc = "return" /\ process.pid > 0
    /\ Len(hist.forks) = 2
    /\ hist.waits = 1 /\ hist.reaps = 1

(***************************************************************************)
(* C33: no descriptor is closed twice                                      *)
(***************************************************************************)
\* C33: the parent never issues a close on a descriptor number that it has
\* already released: every socketpair end is closed exactly once on every
\* path, so no close of an invocation fails with EBADF.
C33_NoDescriptorClosedTwice == fdt.ebadf = 0

(***************************************************************************)
(* C34: the token EMPTY in a rule                                          *)
(***************************************************************************)
\* C34: a rule field holding EMPTY matches exactly the requests in which the
\* corresponding token is absent: a rule whose subcommand is EMPTY matches no
\* request that carries a subcommand, whatever its text, and a rule whose
\* command is EMPTY matches no request that carries a command.
C34_EmptyMatchesOnlyAbsentToken ==
    pc = "found" =>
        \A k \in 1..Len(config) :
            line_matches(config[k], query.command, query.subcommand) =>
                /\ config[k].subcommand = EMPTY => query.subcommand = NULL
                /\ config[k].command = EMPTY => query.command = NULL

====
